---- MODULE Spec2Model ----
(***************************************************************************)
(* Climate stress-test engine of the Scenarios page, with the sign-in and  *)
(* the what-if simulation of the application around it.                    *)
(*                                                                         *)
(* Numbers are fixed-point integers.  A parameter vector holds             *)
(*   temperature_rise         in tenths of a degree   (15   = 1.5 C)       *)
(*   carbon_price             in rupees per tonne     (1000 = 1000)        *)
(*   green_investment_growth  in percent              (20   = 20 %)        *)
(*   fossil_phase_out         in tenths of a percent  (50   = 5 %/year)    *)
(*   water_stress_level       as the index            (45   = 45)          *)
(*   disaster_frequency       in tenths               (15   = 1.5 x)       *)
(* Every intermediate of calculateStressOutcomes is kept exactly, as an    *)
(* integer number of the unit named in its comment.  The source computes   *)
(* in IEEE-754 doubles: the computed double is the exact value plus an     *)
(* error far smaller than any unit used here, so the error shows only      *)
(* where the exact value sits on a toFixed tie or on a comparison          *)
(* threshold.  The sign of that error is the record roundoff, one field    *)
(* per computed double, taken on magnitudes: -1 the double is nearer zero   *)
(* than the exact value, 0 it is the exact value (or the error cannot be   *)
(* observed), 1 it is farther from zero.                                   *)
(***************************************************************************)
EXTENDS Integers, Sequences, FiniteSets

VARIABLES stressParams, roundoff, stressOutcomes, updateQueue,
          localStorage, location, authProvider, loginForm, scenariosPage,
          pending

vars == <<stressParams, roundoff, stressOutcomes, updateQueue,
          localStorage, location, authProvider, loginForm, scenariosPage,
          pending>>

\* The stress-test tab of the Scenarios page.
engineVars == <<stressParams, roundoff, stressOutcomes, updateQueue>>

\* Browser storage and address, the state of AuthProvider, of the Login
\* form and of the what-if tab, and what is still to run: effects scheduled
\* by a mount, requests awaiting their response, a page load asked for.
appVars == <<localStorage, location, authProvider, loginForm, scenariosPage,
             pending>>

\* Number of positions of each slider that the model lets the user pick.
MaxStops == 1

\* Number of setStressParams calls the model lets pile up before a render.
MaxBatch == 2

\* Number of entries the model lets wait in pending.
MaxPending == 3

ParamKeys ==
  {"temperature_rise", "carbon_price", "green_investment_growth",
   "fossil_phase_out", "water_stress_level", "disaster_frequency"}

\* min, max, step and default of each parameter, in the units above.
STRESS_TEST_PARAMS ==
  [temperature_rise        |-> [min |-> 10,  max |-> 40,   step |-> 1,   default |-> 15],
   carbon_price            |-> [min |-> 500, max |-> 5000, step |-> 100, default |-> 1000],
   green_investment_growth |-> [min |-> 0,   max |-> 50,   step |-> 1,   default |-> 20],
   fossil_phase_out        |-> [min |-> 0,   max |-> 150,  step |-> 5,   default |-> 50],
   water_stress_level      |-> [min |-> 0,   max |-> 100,  step |-> 1,   default |-> 45],
   disaster_frequency      |-> [min |-> 10,  max |-> 30,   step |-> 1,   default |-> 15]]

\* The values an <input type="range"> with this min, max and step can emit.
SliderValues(key) ==
  LET c == STRESS_TEST_PARAMS[key]
  IN  {c.min + k * c.step : k \in 0..((c.max - c.min) \div c.step)}

\* The slider positions the model explores, most telling first.
StopList ==
  [temperature_rise        |-> <<34, 40>>,
   carbon_price            |-> <<1900, 5000>>,
   green_investment_growth |-> <<50>>,
   fossil_phase_out        |-> <<80>>,
   water_stress_level      |-> <<65>>,
   disaster_frequency      |-> <<30, 10>>]

\* The sliders whose lower end is explored as well: at disaster_frequency 1.0
\* disasterImpact vanishes.
LowEnds == {"disaster_frequency"}

SliderStops(key) ==
  ({StopList[key][i] : i \in 1..(IF MaxStops < Len(StopList[key])
                                  THEN MaxStops ELSE Len(StopList[key]))}
     \cup (IF key \in LowEnds THEN {STRESS_TEST_PARAMS[key].min} ELSE {}))
    \cap SliderValues(key)

\* The position picked where several changes precede one render: the first
\* stop of each slider.
BatchStops(key) == {StopList[key][1]} \cap SliderValues(key)

Preset(name, t, c, g, f, w, d) ==
  [name |-> name,
   params |-> [temperature_rise |-> t, carbon_price |-> c,
               green_investment_growth |-> g, fossil_phase_out |-> f,
               water_stress_level |-> w, disaster_frequency |-> d]]

\* Seeded fault: Climate Crisis written with temperature_rise 4.5.
presetScenarios_HotCrisis ==
  <<Preset("Net Zero 2050",      15, 3000, 40, 100, 35, 12),
    Preset("Business as Usual",  25,  800, 10,  20, 55, 18),
    Preset("Delayed Transition", 20, 1500, 25,  50, 50, 15),
    Preset("Climate Crisis",     45,  500,  5,  10, 80, 25),
    Preset("Green Recovery",     18, 2500, 45, 120, 40, 13)>>

presetScenarios ==
  <<Preset("Net Zero 2050",      15, 3000, 40, 100, 35, 12),
    Preset("Business as Usual",  25,  800, 10,  20, 55, 18),
    Preset("Delayed Transition", 20, 1500, 25,  50, 50, 15),
    Preset("Climate Crisis",     35,  500,  5,  10, 80, 25),
    Preset("Green Recovery",     18, 2500, 45, 120, 40, 13)>>

\* Seeded fault: the reset object built from each slider's lower end.
DefaultParams_FromMin == [key \in ParamKeys |-> STRESS_TEST_PARAMS[key].min]

\* The object resetParams builds from the catalog's defaults.
DefaultParams == [key \in ParamKeys |-> STRESS_TEST_PARAMS[key].default]

\* The literal the page passes to useState for stressParams.
InitialParams ==
  [temperature_rise |-> 15, carbon_price |-> 1000, green_investment_growth |-> 20,
   fossil_phase_out |-> 50, water_stress_level |-> 45, disaster_frequency |-> 15]

----------------------------------------------------------------------------
\* Arithmetic helpers.

Max(a, b) == IF a >= b THEN a ELSE b
Min(a, b) == IF a <= b THEN a ELSE b
Abs(a) == IF a < 0 THEN -a ELSE a

\* x is an exact half-way case of rounding to a multiple of unit.
IsTie(x, unit) == 2 * (Abs(x) % unit) = unit

\* Seeded fault: the digits beyond the precision cut off instead of rounded.
ToFixed_Truncate(x, unit, err) ==
  IF x < 0 THEN -(Abs(x) \div unit) ELSE x \div unit

\* Number.prototype.toFixed followed by parseFloat, for a double whose exact
\* value is x units-of-scale and whose error has sign err: the nearest
\* multiple of unit, counted in units; a tie goes away from zero unless the
\* double is below it in magnitude.
ToFixed(x, unit, err) ==
  LET m == Abs(x)
      q == m \div unit
      r == m % unit
      n == IF 2 * r > unit THEN q + 1
           ELSE IF 2 * r < unit THEN q
           ELSE IF err < 0 THEN q ELSE q + 1
  IN  IF x < 0 THEN -n ELSE n

\* double > threshold, double >= threshold.
Gt(x, err, threshold) == x > threshold \/ (x = threshold /\ err > 0)
Ge(x, err, threshold) == x > threshold \/ (x = threshold /\ err >= 0)

\* The exact value x, counted in a unit whose denominator has odd part odd,
\* is a binary fraction: only then can a double hold it without error.
IsDouble(x, odd) == x % odd = 0

\* The error signs that can be told apart for a double of exact value x that
\* is rounded to a multiple of unit and compared with the thresholds.  Off
\* ties and thresholds the error is not observable; on one the double is off
\* the exact value either way, or equal to it where a double can be.
Errs(x, unit, odd, thresholds) ==
  IF IsTie(x, unit) \/ x \in thresholds
  THEN {-1, 1} \cup (IF IsDouble(x, odd) THEN {0} ELSE {})
  ELSE {0}

\* The error sign of projected - base from that of projected: the base is a
\* multiple of 0.5, so the subtraction is exact while the difference is no
\* larger than projected, and the error carries over, with its sign turned
\* on the magnitude when the difference is negative.
ChangeErr(err, change) == IF change < 0 THEN -err ELSE err

----------------------------------------------------------------------------
\* calculateStressOutcomes, exactly.

baseNPA == 2500                \* thousandths of a percent
baseGDP == 65000               \* ten-thousandths of a percent
baseExpectedLoss == 15000      \* crore
baseGreenFinance == 20         \* percent

\* Impact terms, in thousandths.
\* Seeded fault: the quadratic centred on 2.5 instead of 1.5.
temperatureImpact_Centre25(p) ==
  (p.temperature_rise - 25) * (p.temperature_rise - 25) * 8

\* Seeded fault: no impact counted below 1.5 degrees.
temperatureImpact_AboveOnly(p) ==
  IF p.temperature_rise <= 15 THEN 0
  ELSE (p.temperature_rise - 15) * (p.temperature_rise - 15) * 8

temperatureImpact(p) == (p.temperature_rise - 15) * (p.temperature_rise - 15) * 8
carbonPriceImpact(p) == ((p.carbon_price - 1000) * 3) \div 10
greenInvestmentBenefit(p) == p.green_investment_growth * 20
fossilPhaseOutCost(p) == p.fossil_phase_out * 15
waterStressImpact(p) == p.water_stress_level * 5

\* Seeded fault: the frequency itself used, not its excess over 1.0.
disasterImpact_NoBaseline(p) == p.disaster_frequency * 120

disasterImpact(p) == (p.disaster_frequency - 10) * 120

\* thousandths of a percent
projectedNPA(p) ==
  Max(0, baseNPA + temperatureImpact(p) + waterStressImpact(p) + disasterImpact(p)
         - greenInvestmentBenefit(p))

\* Seeded fault: fossilPhaseOutCost subtracted without its weight 0.3.
projectedGDP_FossilUnweighted(p) ==
  Max(0, baseGDP - temperatureImpact(p) * 5 - fossilPhaseOutCost(p) * 10
         - disasterImpact(p) * 4 + greenInvestmentBenefit(p) * 2)

\* ten-thousandths of a percent
projectedGDP(p) ==
  Max(0, baseGDP - temperatureImpact(p) * 5 - fossilPhaseOutCost(p) * 3
         - disasterImpact(p) * 4 + greenInvestmentBenefit(p) * 2)

\* hundredths of a crore
\* Seeded fault: waterStressImpact counted among the loss drivers.
projectedExpectedLoss_WithWater(p) ==
  baseExpectedLoss * 100 + 300 * temperatureImpact(p) + 225 * disasterImpact(p)
    + 225 * waterStressImpact(p)

projectedExpectedLoss(p) ==
  baseExpectedLoss * 100 + 300 * temperatureImpact(p) + 225 * disasterImpact(p)

\* tenths of a percent
projectedGreenFinance(p) == baseGreenFinance * 10 + p.green_investment_growth * 5

\* Seeded fault: the cap of Math.min(100, ...) left out.
physicalRisk_NoCap(p) ==
  (temperatureImpact(p) + waterStressImpact(p) + disasterImpact(p)) * 25 + 30000

\* Risk scores, in thousandths of a point.
physicalRisk(p) ==
  Min(100000, (temperatureImpact(p) + waterStressImpact(p) + disasterImpact(p)) * 25 + 30000)

transitionRisk(p) ==
  Min(100000, (carbonPriceImpact(p) + fossilPhaseOutCost(p)) * 20 + 25000)

\* Seeded fault: the cap of Math.min(100, ...) left out.
financialRisk_NoCap(p) == projectedNPA(p) * 20 - 50000 + 40000

\* (projectedNPA / baseNPA - 1) * 50 + 40 with baseNPA = 2.5
financialRisk(p) == Min(100000, projectedNPA(p) * 20 - 50000 + 40000)

operationalRisk(p) ==
  Min(100000, (disasterImpact(p) + waterStressImpact(p)) * 30 + 20000)

\* Seeded fault: carbonPriceImpact used in place of carbon_price / 1000.
regulatoryRisk_FromImpact(p) == Min(100000, carbonPriceImpact(p) * 15 + 30000)

regulatoryRisk(p) == Min(100000, p.carbon_price * 15 + 30000)

\* Seeded fault: regulatoryRisk left out of the sum.
riskSum_FourTerms(p) ==
  physicalRisk(p) + transitionRisk(p) + financialRisk(p) + operationalRisk(p)

\* Five times the overall score, in thousandths of a point.
riskSum(p) ==
  physicalRisk(p) + transitionRisk(p) + financialRisk(p) + operationalRisk(p)
    + regulatoryRisk(p)

\* Seeded fault: transitionRisk not divided by 100.
capitalImpact_Unscaled(p) == -1 * (temperatureImpact(p) * 100 + transitionRisk(p) * 100) * 2

\* Seeded fault: the leading -1 left out.
capitalImpact_SignLost(p) == (temperatureImpact(p) * 100 + transitionRisk(p)) * 2

\* hundred-thousandths of a percent
capitalImpact(p) == -1 * (temperatureImpact(p) * 100 + transitionRisk(p)) * 2

\* 15.5 + capitalImpact, hundred-thousandths of a percent
capitalRatio(p) == 1550000 + capitalImpact(p)

\* thousandths
liquidityStress(p) ==
  Min(100000, disasterImpact(p) * 20 + waterStressImpact(p) * 15 + 25000)

\* 135 - liquidityStress * 0.5, in two-thousandths of a percent
liquidityCoverage(p) == 270000 - liquidityStress(p)

\* Seeded fault: the difference taken the other way round.
npaChange_Reversed(p) == baseNPA - projectedNPA(p)

\* thousandths, ten-thousandths
npaChange(p) == projectedNPA(p) - baseNPA
gdpChange(p) == projectedGDP(p) - baseGDP

\* (projectedExpectedLoss - base) / base * 100, in 1/15000 of a percent
lossChangePct(p) == projectedExpectedLoss(p) - baseExpectedLoss * 100

\* The error patterns of one evaluation that can be told apart.
Roundoffs(p) ==
  LET all ==
        [npa         : Errs(projectedNPA(p), 10, 125, {}),
         gdp         : Errs(projectedGDP(p), 100, 625, {}),
         loss        : Errs(projectedExpectedLoss(p), 100, 25, {}),
         green       : Errs(projectedGreenFinance(p), 1, 5, {}),
         capital     : Errs(capitalRatio(p), 1000, 3125, {1150000, 900000}),
         liquidity   : Errs(liquidityCoverage(p), 2000, 125, {}),
         physical    : Errs(physicalRisk(p), 100, 125, {}),
         transition  : Errs(transitionRisk(p), 100, 125, {}),
         financial   : Errs(financialRisk(p), 100, 125, {}),
         operational : Errs(operationalRisk(p), 100, 125, {}),
         regulatory  : Errs(regulatoryRisk(p), 100, 125, {}),
         overall     : Errs(riskSum(p), 500, 625, {350000, 250000, 150000}),
         npa_change  : Errs(npaChange(p), 10, 125, {}),
         gdp_change  : Errs(gdpChange(p), 100, 625, {}),
         loss_change : Errs(lossChangePct(p), 1500, 1875, {})]
  IN  {e \in all :
         /\ 2 * projectedNPA(p) >= baseNPA =>
              e.npa_change = ChangeErr(e.npa, npaChange(p))
         /\ 2 * projectedGDP(p) >= baseGDP =>
              e.gdp_change = ChangeErr(e.gdp, gdpChange(p))}

\* Seeded fault: >= in place of >.
StressLevel_NonStrict(p, e) ==
  IF Ge(riskSum(p), e.overall, 350000) THEN "Severe"
  ELSE IF Ge(riskSum(p), e.overall, 250000) THEN "High"
  ELSE IF Ge(riskSum(p), e.overall, 150000) THEN "Moderate"
  ELSE "Low"

\* stress_level and capital_adequacy, on the unrounded doubles.
StressLevel(p, e) ==
  IF Gt(riskSum(p), e.overall, 350000) THEN "Severe"
  ELSE IF Gt(riskSum(p), e.overall, 250000) THEN "High"
  ELSE IF Gt(riskSum(p), e.overall, 150000) THEN "Moderate"
  ELSE "Low"

\* Seeded fault: the label taken from the ratio after toFixed(2).
CapitalAdequacy_OnRounded(p, e) ==
  LET c == ToFixed(capitalRatio(p), 1000, e.capital)
  IN  IF c >= 1150 THEN "Adequate" ELSE IF c >= 900 THEN "Watch" ELSE "Critical"

CapitalAdequacy(p, e) ==
  IF Ge(capitalRatio(p), e.capital, 1150000) THEN "Adequate"
  ELSE IF Ge(capitalRatio(p), e.capital, 900000) THEN "Watch"
  ELSE "Critical"

\* Seeded fault: the baseline capital ratio written as 15 instead of 15.5.
baseline_CapitalRatio15 ==
  [npa_ratio |-> baseNPA \div 10, gdp_growth |-> baseGDP \div 100,
   expected_loss |-> baseExpectedLoss, green_finance_share |-> baseGreenFinance * 10,
   capital_ratio |-> 1500, liquidity_coverage |-> 135]

\* The baseline object of the report: the four base constants and the two
\* literals 15.5 and 135, in the units of the report.
baseline ==
  [npa_ratio |-> baseNPA \div 10, gdp_growth |-> baseGDP \div 100,
   expected_loss |-> baseExpectedLoss, green_finance_share |-> baseGreenFinance * 10,
   capital_ratio |-> 1550, liquidity_coverage |-> 135]

\* The report.  npa_ratio, gdp_growth, capital_ratio, npa_change, gdp_change
\* are in hundredths; green_finance_share, the risk scores and
\* loss_change_pct in tenths; expected_loss and liquidity_coverage in units.
calculateStressOutcomes(p, e) ==
  [baseline |-> baseline,
   projected |->
     [npa_ratio |-> ToFixed(projectedNPA(p), 10, e.npa),
      gdp_growth |-> ToFixed(projectedGDP(p), 100, e.gdp),
      expected_loss |-> ToFixed(projectedExpectedLoss(p), 100, e.loss),
      green_finance_share |-> ToFixed(projectedGreenFinance(p), 1, e.green),
      capital_ratio |-> ToFixed(capitalRatio(p), 1000, e.capital),
      liquidity_coverage |-> ToFixed(liquidityCoverage(p), 2000, e.liquidity)],
   risk_scores |->
     [physical |-> ToFixed(physicalRisk(p), 100, e.physical),
      transition |-> ToFixed(transitionRisk(p), 100, e.transition),
      financial |-> ToFixed(financialRisk(p), 100, e.financial),
      operational |-> ToFixed(operationalRisk(p), 100, e.operational),
      regulatory |-> ToFixed(regulatoryRisk(p), 100, e.regulatory),
      overall |-> ToFixed(riskSum(p), 500, e.overall)],
   changes |->
     [npa_change |-> ToFixed(npaChange(p), 10, e.npa_change),
      gdp_change |-> ToFixed(gdpChange(p), 100, e.gdp_change),
      loss_change_pct |-> ToFixed(lossChangePct(p), 1500, e.loss_change)],
   stress_level |-> StressLevel(p, e),
   capital_adequacy |-> CapitalAdequacy(p, e)]

----------------------------------------------------------------------------
\* The recommendation list the page renders from a report.

PhysicalItem ==
  "Increase physical risk provisions and review exposure to climate-vulnerable assets"
TransitionItem ==
  "Accelerate divestment from high-carbon sectors and increase green finance allocation"
CapitalItem ==
  "Consider capital buffer enhancement to maintain regulatory requirements"
CreditItem ==
  "Implement enhanced credit monitoring for climate-sensitive sectors"
MonitoringItem ==
  "Continue monitoring and run quarterly stress tests with updated parameters"
DiversifiedItem ==
  "Maintain diversified portfolio across climate-resilient sectors"

\* <<item>> when the condition of {cond && <li>...} holds, nothing otherwise.
When(cond, item) == IF cond THEN <<item>> ELSE <<>>

\* Seeded fault: the four rules chained, each tried only when those before
\* it did not fire.
Recommendations_FirstMatch(outcomes) ==
  (IF outcomes.risk_scores.physical > 500 THEN <<PhysicalItem>>
   ELSE IF outcomes.risk_scores.transition > 500 THEN <<TransitionItem>>
   ELSE IF outcomes.projected.capital_ratio < 1200 THEN <<CapitalItem>>
   ELSE IF outcomes.changes.npa_change > 100 THEN <<CreditItem>>
   ELSE <<>>)
    \o <<MonitoringItem, DiversifiedItem>>

\* Seeded fault: the two unconditional items rendered before the rules.
Recommendations_BaselineFirst(outcomes) ==
  <<MonitoringItem, DiversifiedItem>>
    \o When(outcomes.risk_scores.physical > 500, PhysicalItem)
    \o When(outcomes.risk_scores.transition > 500, TransitionItem)
    \o When(outcomes.projected.capital_ratio < 1200, CapitalItem)
    \o When(outcomes.changes.npa_change > 100, CreditItem)

\* The <li> children of the list, in document order; the thresholds 50, 50,
\* 12 and 1 in the units of the report.
Recommendations(outcomes) ==
  When(outcomes.risk_scores.physical > 500, PhysicalItem)
    \o When(outcomes.risk_scores.transition > 500, TransitionItem)
    \o When(outcomes.projected.capital_ratio < 1200, CapitalItem)
    \o When(outcomes.changes.npa_change > 100, CreditItem)
    \o <<MonitoringItem, DiversifiedItem>>

----------------------------------------------------------------------------
\* The application: what the components hold when they mount.

\* JavaScript's null, and the result of getItem for an item not stored.
Null == "null"

\* The routes App wraps in ProtectedRoute.
ProtectedPaths ==
  {"/dashboard", "/forecasts", "/scenarios", "/anomalies", "/reports", "/settings"}

\* useState(null) and useState(true) of AuthProvider.
AuthProviderMounted == [user |-> Null, loading |-> TRUE]

\* The useState values of Login that the sign-in depends on.
LoginMounted == [loading |-> FALSE, requires2FA |-> FALSE, recaptchaToken |-> ""]

\* The useState values of the what-if tab; results is <<>> for null, else
\* the data of a simulation, named by the request it answers.
ScenariosMounted ==
  [scenarios |-> <<>>, selectedScenario |-> Null, severity |-> "moderate",
   loading |-> FALSE, results |-> <<>>]

\* localStorage with no token and no user.
NoItems == [token |-> Null, user |-> Null]

\* localStorage as an earlier sign-in has left it.
SignedIn == [token |-> "stored", user |-> "officer"]

\* An entry of pending; mounted says whether the component that awaits it is
\* still on the page.
Request(kind, body) == [kind |-> kind, body |-> body, mounted |-> TRUE]

\* A signed-in user on the Scenarios page with nothing under way.
AppAtRest ==
  /\ localStorage = SignedIn
  /\ location = "/scenarios"
  /\ authProvider = [user |-> "officer", loading |-> FALSE]
  /\ loginForm = LoginMounted
  /\ scenariosPage = ScenariosMounted
  /\ pending = <<>>

----------------------------------------------------------------------------
\* The page: stressParams is React state, stressOutcomes its useMemo.

\* Seeded fault: useMemo with an empty dependency list, so the report of the
\* first render is kept.
Render_StaleMemo(next) ==
  /\ stressParams' = next
  /\ updateQueue' = <<>>
  /\ UNCHANGED <<roundoff, stressOutcomes>>
  /\ UNCHANGED appVars

\* The render after setStressParams: the queued updates are consumed, next
\* is the vector they leave, and useMemo runs calculateStressOutcomes again;
\* on an equal vector the same doubles result.
Render(next) ==
  /\ stressParams' = next
  /\ updateQueue' = <<>>
  /\ UNCHANGED appVars
  /\ IF next = stressParams
     THEN UNCHANGED <<roundoff, stressOutcomes>>
     ELSE \E e \in Roundoffs(next) :
            /\ roundoff' = e
            /\ stressOutcomes' = calculateStressOutcomes(next, e)

Init ==
  /\ stressParams = InitialParams
  /\ roundoff \in Roundoffs(InitialParams)
  /\ stressOutcomes = calculateStressOutcomes(InitialParams, roundoff)
  /\ updateQueue = <<>>
  /\ AppAtRest

\* The function handleParamChange passes to setStressParams:
\* prev => ({ ...prev, [key]: value }).
Updater(key, value) == [key |-> key, value |-> value]

\* Seeded fault: the update written as { ...stressParams, [key]: value },
\* which spreads the vector of the last render.
ApplyUpdater_RenderedVector(prev, update) ==
  [stressParams EXCEPT ![update.key] = update.value]

\* The updater called with the vector the updates before it have left.
ApplyUpdater(prev, update) == [prev EXCEPT ![update.key] = update.value]

\* React runs the queued updaters in the order of the calls.
RECURSIVE ProcessQueue(_, _)
ProcessQueue(prev, queue) ==
  IF queue = <<>> THEN prev
  ELSE ProcessQueue(ApplyUpdater(prev, Head(queue)), Tail(queue))

\* One slider change with the render that follows it.
handleParamChange(key, value) ==
  Render(ProcessQueue(stressParams, <<Updater(key, value)>>))

\* Seeded fault: the preset merged into the vector field by field, with
\* disaster_frequency missed.
applyPreset_Merge(preset) ==
  Render([key \in ParamKeys |->
            IF key = "disaster_frequency" THEN stressParams[key]
            ELSE preset.params[key]])

applyPreset(preset) == Render(preset.params)

resetParams == Render(DefaultParams)

Next ==
  \/ \E key \in ParamKeys : \E value \in SliderStops(key) : handleParamChange(key, value)
  \/ \E i \in 1..Len(presetScenarios) : applyPreset(presetScenarios[i])
  \/ resetParams

Spec == Init /\ [][Next]_vars

\* A slider's onChange with no render yet: handleParamChange hands its
\* updater to setStressParams, which queues it.
onChange(paramKey, value) ==
  /\ Len(updateQueue) < MaxBatch
  /\ updateQueue' = Append(updateQueue, Updater(paramKey, value))
  /\ UNCHANGED <<stressParams, roundoff, stressOutcomes>>
  /\ UNCHANGED appVars

\* The render that takes up the queued updates.
Rerender ==
  /\ updateQueue # <<>>
  /\ Render(ProcessQueue(stressParams, updateQueue))

NextBatch ==
  \/ \E key \in ParamKeys : \E value \in BatchStops(key) : onChange(key, value)
  \/ Rerender

\* Slider changes that may pile up before the page renders.
SpecBatch == Init /\ [][NextBatch]_vars

----------------------------------------------------------------------------
\* Sign-in: AuthProvider, ProtectedRoute, Login and the axios interceptor.

\* The pages the sign-in is followed over: Welcome, Login and two of the
\* protected routes.
AuthPaths == {"/", "/login", "/dashboard", "/settings"}

\* The stress-test tab untouched: one of its first renders stands for it.
EngineAtRest ==
  /\ stressParams = InitialParams
  /\ roundoff = CHOOSE e \in Roundoffs(InitialParams) : TRUE
  /\ stressOutcomes = calculateStressOutcomes(InitialParams, roundoff)
  /\ updateQueue = <<>>

Remove(seq, i) == SubSeq(seq, 1, i - 1) \o SubSeq(seq, i + 1, Len(seq))

\* The response interceptor: on status 401 it removes token and user and
\* assigns window.location.href = '/login'; the load that assignment asks
\* for is entered in pending once.
Intercepted(status, storage) == IF status = "unauthorized" THEN NoItems ELSE storage

InterceptedPending(status, queue) ==
  IF status = "unauthorized" /\ \A i \in 1..Len(queue) : queue[i].kind # "load"
  THEN Append(queue, Request("load", <<"/login">>))
  ELSE queue

\* The Login component leaves the page: what its handleSubmit awaits will
\* find it unmounted.
LoginUnmounted(queue) ==
  [i \in 1..Len(queue) |->
     IF queue[i].kind = "login" THEN [queue[i] EXCEPT !.mounted = FALSE]
     ELSE queue[i]]

\* Seeded fault: the loading test of ProtectedRoute left out.
ProtectedRoute_NoLoadingTest(children) ==
  IF authProvider.user # Null THEN children ELSE "Navigate"

\* What ProtectedRoute returns: the spinner, its children, or
\* <Navigate to="/login" />.
ProtectedRoute(children) ==
  IF authProvider.loading THEN "spinner"
  ELSE IF authProvider.user # Null THEN children ELSE "Navigate"

\* The element the router shows for the current address.
Element ==
  IF location \in ProtectedPaths THEN ProtectedRoute(location) ELSE location

\* The document is loaded at path: every component starts over, requests of
\* the page before are dropped, AuthProvider's effect is scheduled.
Mount(path) ==
  /\ location' = path
  /\ authProvider' = AuthProviderMounted
  /\ loginForm' = LoginMounted
  /\ scenariosPage' = ScenariosMounted
  /\ pending' = <<Request("checkAuth", <<>>)>>
  /\ UNCHANGED <<localStorage, engineVars>>

InitAuth ==
  /\ EngineAtRest
  /\ localStorage \in {NoItems, SignedIn}
  /\ location \in AuthPaths
  /\ authProvider = AuthProviderMounted
  /\ loginForm = LoginMounted
  /\ scenariosPage = ScenariosMounted
  /\ pending = <<Request("checkAuth", <<>>)>>

\* React runs the effects of a render before it handles the next event.
EffectsRun == \A i \in 1..Len(pending) : pending[i].kind # "checkAuth"

\* The user opens or refreshes an address.
DocumentLoad(path) == Mount(path)

\* The load the interceptor asked for takes place.
Reload ==
  /\ \E i \in 1..Len(pending) : pending[i].kind = "load"
  /\ Mount("/login")

\* checkAuth up to its await: with token and user stored it sends getMe,
\* without them it goes straight to setLoading(false).
checkAuth(i) ==
  /\ pending[i].kind = "checkAuth"
  /\ IF localStorage.token # Null /\ localStorage.user # Null
     THEN /\ pending' = [pending EXCEPT ![i] = Request("getMe", <<>>)]
          /\ UNCHANGED authProvider
     ELSE /\ pending' = Remove(pending, i)
          /\ authProvider' = [authProvider EXCEPT !.loading = FALSE]
  /\ UNCHANGED <<localStorage, location, loginForm, scenariosPage, engineVars>>

\* checkAuth from the answer to getMe on: setUser(data), or the catch block
\* after the interceptor, then setLoading(false).
getMeResponse(i, status) ==
  /\ pending[i].kind = "getMe"
  /\ authProvider' =
       [user |-> IF status = "ok" THEN "officer" ELSE Null, loading |-> FALSE]
  /\ localStorage' = IF status = "ok" THEN localStorage ELSE NoItems
  /\ pending' = InterceptedPending(status, Remove(pending, i))
  /\ UNCHANGED <<location, loginForm, scenariosPage, engineVars>>

\* A route change inside the application: a Link, or the browser's back and
\* forward.
navigate(path) ==
  /\ EffectsRun
  /\ path # location
  /\ location' = path
  /\ loginForm' = LoginMounted
  /\ pending' = IF location = "/login" THEN LoginUnmounted(pending) ELSE pending
  /\ UNCHANGED <<localStorage, authProvider, scenariosPage, engineVars>>

\* The effect of Welcome: a signed-in user is sent to the dashboard.
Welcome ==
  /\ location = "/"
  /\ authProvider.user # Null
  /\ location' = "/dashboard"
  /\ UNCHANGED <<localStorage, authProvider, loginForm, scenariosPage, pending,
                 engineVars>>

\* The <Navigate to="/login" /> that ProtectedRoute returns takes effect.
Navigate ==
  /\ Element = "Navigate"
  /\ location' = "/login"
  /\ UNCHANGED <<localStorage, authProvider, loginForm, scenariosPage, pending,
                 engineVars>>

\* Layout's handleLogout on a protected page: logout(), navigate('/login').
handleLogout ==
  /\ EffectsRun
  /\ Element \in ProtectedPaths
  /\ localStorage' = NoItems
  /\ authProvider' = [authProvider EXCEPT !.user = Null]
  /\ location' = "/login"
  /\ UNCHANGED <<loginForm, scenariosPage, pending, engineVars>>

\* The reCAPTCHA widget, shown before the OTP step, reports a token.
handleRecaptcha ==
  /\ EffectsRun
  /\ location = "/login"
  /\ ~loginForm.requires2FA
  /\ loginForm.recaptchaToken = ""
  /\ loginForm' = [loginForm EXCEPT !.recaptchaToken = "captcha"]
  /\ UNCHANGED <<localStorage, location, authProvider, scenariosPage, pending,
                 engineVars>>

\* handleSubmit up to its await, the submit button being enabled: without a
\* reCAPTCHA token it returns, else it sets loading and calls login, with
\* the OTP code in the OTP step.
handleSubmit ==
  /\ EffectsRun
  /\ location = "/login"
  /\ ~(loginForm.loading \/ (~loginForm.requires2FA /\ loginForm.recaptchaToken = ""))
  /\ Len(pending) < MaxPending
  /\ IF loginForm.recaptchaToken = ""
     THEN UNCHANGED <<loginForm, pending>>
     ELSE /\ loginForm' = [loginForm EXCEPT !.loading = TRUE]
          /\ pending' =
               Append(pending,
                      Request("login",
                              IF loginForm.requires2FA THEN <<"otp_code">> ELSE <<>>))
  /\ UNCHANGED <<localStorage, location, authProvider, scenariosPage, engineVars>>

\* The answer to authAPI.login, through the interceptor, the rest of login
\* and the rest of handleSubmit.  result is "requires_2fa", "ok" (token and
\* user returned), "unauthorized" (status 401) or "error" (any other
\* failure).
loginResponse(i, result) ==
  LET here == pending[i].mounted
      rest == Remove(pending, i)
  IN  /\ pending[i].kind = "login"
      /\ localStorage' =
           IF result = "ok" THEN [token |-> "issued", user |-> "officer"]
           ELSE Intercepted(result, localStorage)
      /\ authProvider' =
           IF result = "ok" THEN [authProvider EXCEPT !.user = "officer"]
           ELSE authProvider
      /\ location' = IF result = "ok" THEN "/dashboard" ELSE location
      /\ loginForm' =
           IF result = "ok" THEN LoginMounted
           ELSE IF ~here THEN loginForm
           ELSE [loginForm EXCEPT !.loading = FALSE,
                                  !.requires2FA = @ \/ result = "requires_2fa"]
      /\ pending' =
           IF result = "ok" THEN LoginUnmounted(rest)
           ELSE InterceptedPending(result, rest)
      /\ UNCHANGED <<scenariosPage, engineVars>>

NextAuth ==
  \/ \E path \in AuthPaths : DocumentLoad(path)
  \/ Reload
  \/ \E i \in 1..Len(pending) : checkAuth(i)
  \/ \E i \in 1..Len(pending) : \E status \in {"ok", "unauthorized", "error"} :
       getMeResponse(i, status)
  \/ \E path \in AuthPaths : navigate(path)
  \/ Welcome
  \/ Navigate
  \/ handleLogout
  \/ handleRecaptcha
  \/ handleSubmit
  \/ \E i \in 1..Len(pending) :
       \E result \in {"requires_2fa", "ok", "unauthorized", "error"} :
         loginResponse(i, result)

\* The application from a page load on, signing in and out.
SpecAuth == InitAuth /\ [][NextAuth]_vars

----------------------------------------------------------------------------
\* The what-if tab of the Scenarios page: scenario list, runSimulation.

\* The scenarios the server lists, each by its id, and the severities every
\* one of them offers.
ServerScenarios == <<"scenario_1", "scenario_2">>
Severities == {"moderate", "severe"}

\* The page has just mounted for a signed-in user: its effect has called
\* fetchScenarios.
InitSim ==
  /\ EngineAtRest
  /\ localStorage = SignedIn
  /\ location = "/scenarios"
  /\ authProvider = [user |-> "officer", loading |-> FALSE]
  /\ loginForm = LoginMounted
  /\ scenariosPage = ScenariosMounted
  /\ pending = <<Request("listScenarios", <<>>)>>

\* fetchScenarios from the answer to listScenarios on.
listScenariosResponse(i, status) ==
  /\ pending[i].kind = "listScenarios"
  /\ scenariosPage' =
       IF status = "ok" THEN [scenariosPage EXCEPT !.scenarios = ServerScenarios]
       ELSE scenariosPage
  /\ localStorage' = Intercepted(status, localStorage)
  /\ pending' = InterceptedPending(status, Remove(pending, i))
  /\ UNCHANGED <<location, authProvider, loginForm, engineVars>>

\* A click on the card of a listed scenario.
setSelectedScenario(scenario) ==
  /\ Element = "/scenarios"
  /\ \E j \in 1..Len(scenariosPage.scenarios) : scenariosPage.scenarios[j] = scenario
  /\ scenariosPage' = [scenariosPage EXCEPT !.selectedScenario = scenario]
  /\ UNCHANGED <<localStorage, location, authProvider, loginForm, pending, engineVars>>

\* A click on a severity button, shown once a scenario is selected.
setSeverity(sev) ==
  /\ Element = "/scenarios"
  /\ scenariosPage.selectedScenario # Null
  /\ scenariosPage' = [scenariosPage EXCEPT !.severity = sev]
  /\ UNCHANGED <<localStorage, location, authProvider, loginForm, pending, engineVars>>

\* runSimulation up to its await, on a click on the run button: the button
\* is rendered once a scenario is selected and is disabled while loading.
runSimulation ==
  /\ Element = "/scenarios"
  /\ scenariosPage.selectedScenario # Null
  /\ ~scenariosPage.loading
  /\ Len(pending) < MaxPending
  /\ IF scenariosPage.selectedScenario = Null
     THEN UNCHANGED <<scenariosPage, pending>>
     ELSE /\ scenariosPage' = [scenariosPage EXCEPT !.loading = TRUE]
          /\ pending' =
               Append(pending,
                      Request("simulate",
                              <<scenariosPage.selectedScenario, scenariosPage.severity>>))
  /\ UNCHANGED <<localStorage, location, authProvider, loginForm, engineVars>>

\* Seeded fault: setLoading(false) at the end of the try block, no finally.
simulateResponse_NoFinally(i, status) ==
  /\ pending[i].kind = "simulate"
  /\ scenariosPage' =
       IF status = "ok"
       THEN [scenariosPage EXCEPT !.results = pending[i].body, !.loading = FALSE]
       ELSE scenariosPage
  /\ localStorage' = Intercepted(status, localStorage)
  /\ pending' = InterceptedPending(status, Remove(pending, i))
  /\ UNCHANGED <<location, authProvider, loginForm, engineVars>>

\* runSimulation from the answer to simulate on: setResults(data) or the
\* catch block after the interceptor, then the finally block.
simulateResponse(i, status) ==
  /\ pending[i].kind = "simulate"
  /\ scenariosPage' =
       [scenariosPage EXCEPT
          !.results = IF status = "ok" THEN pending[i].body ELSE @,
          !.loading = FALSE]
  /\ localStorage' = Intercepted(status, localStorage)
  /\ pending' = InterceptedPending(status, Remove(pending, i))
  /\ UNCHANGED <<location, authProvider, loginForm, engineVars>>

NextSim ==
  \/ \E i \in 1..Len(pending) : \E status \in {"ok", "unauthorized", "error"} :
       listScenariosResponse(i, status)
  \/ \E scenario \in {ServerScenarios[j] : j \in 1..Len(ServerScenarios)} :
       setSelectedScenario(scenario)
  \/ \E sev \in Severities : setSeverity(sev)
  \/ runSimulation
  \/ \E i \in 1..Len(pending) : \E status \in {"ok", "unauthorized", "error"} :
       simulateResponse(i, status)
  \/ Reload

\* The what-if tab from its mount until the page is left.
SpecSim == InitSim /\ [][NextSim]_vars

----------------------------------------------------------------------------
\* Properties of the engine and the page.

ClimateCrisis == presetScenarios[4].params

\* C1 (as stated): with the parameters of preset "Climate Crisis" the report
\* has stress_level "Severe".
C1_ClimateCrisisIsSevere ==
  stressParams = ClimateCrisis => stressOutcomes.stress_level = "Severe"

\* C1 (amended): with the parameters of preset "Climate Crisis" the report
\* has overall score 69.7 and stress_level "High": physical and financial
\* are capped at 100, so the mean stays below 70.
C1_ClimateCrisisIsHigh ==
  stressParams = ClimateCrisis =>
    /\ stressOutcomes.stress_level = "High"
    /\ stressOutcomes.risk_scores.overall = 697
    /\ stressOutcomes.risk_scores.physical = 1000
    /\ stressOutcomes.risk_scores.financial = 1000

C1_Witness ==
  /\ stressParams = ClimateCrisis
  /\ stressOutcomes.risk_scores.operational = 860
  /\ stressOutcomes.risk_scores.regulatory = 375

\* C2: stress_level is decided by the unrounded overall score with strict
\* comparisons tried in order: above 70 Severe, else above 50 High, else
\* above 30 Moderate, else Low; every score gets exactly one label.  overall
\* is riskSum / 5, so the thresholds on riskSum are 350, 250 and 150.
C2_StressLevelByStrictThresholds ==
  LET s == riskSum(stressParams)
      above(t) == s > t * 5000 \/ (s = t * 5000 /\ roundoff.overall = 1)
      lvl == stressOutcomes.stress_level
  IN  /\ lvl \in {"Severe", "High", "Moderate", "Low"}
      /\ (lvl = "Severe") <=> above(70)
      /\ (lvl = "High") <=> (~above(70) /\ above(50))
      /\ (lvl = "Moderate") <=> (~above(50) /\ above(30))
      /\ (lvl = "Low") <=> ~above(30)

\* The overall score is exactly 70 and the label is High.
C2_Witness ==
  /\ riskSum(stressParams) = 350000
  /\ roundoff.overall = 0
  /\ stressOutcomes.stress_level = "High"

\* The listed fields of roundoff cannot be observed for the current vector:
\* none of those doubles is on a toFixed tie or on a threshold, so what the
\* report says there does not depend on the error of the doubles.
RoundoffFree(fields) ==
  \A e \in Roundoffs(stressParams) : \A k \in fields : e[k] = 0

\* C3: stress_level agrees with the thresholds applied to the overall score
\* the report carries (risk_scores.overall, one decimal): the label and the
\* colour band the page derives from the displayed score never disagree.
\* Stated for the reports whose overall score is on no tie or threshold.
C3_LabelAgreesWithReportedOverall ==
  RoundoffFree({"overall"}) =>
    LET o == stressOutcomes.risk_scores.overall
    IN  stressOutcomes.stress_level =
          (IF o > 700 THEN "Severe" ELSE IF o > 500 THEN "High"
           ELSE IF o > 300 THEN "Moderate" ELSE "Low")

\* C4: capital_adequacy is decided by the unrounded projected capital ratio:
\* at least 11.5 Adequate, else at least 9 Watch, else Critical; every ratio
\* gets exactly one label.
C4_CapitalAdequacyByThresholds ==
  LET c == capitalRatio(stressParams)
      atLeast(t) == c > t \/ (c = t /\ roundoff.capital >= 0)
      lbl == stressOutcomes.capital_adequacy
  IN  /\ lbl \in {"Adequate", "Watch", "Critical"}
      /\ (lbl = "Adequate") <=> atLeast(1150000)
      /\ (lbl = "Watch") <=> (~atLeast(1150000) /\ atLeast(900000))
      /\ (lbl = "Critical") <=> ~atLeast(900000)

\* The ratio is just below 9 (it is displayed as 9.00) and the label is
\* Critical.
C4_Witness ==
  /\ capitalRatio(stressParams) >= 899500
  /\ capitalRatio(stressParams) < 900000
  /\ stressOutcomes.capital_adequacy = "Critical"

\* C5: capital_adequacy agrees with the thresholds applied to the
\* projected.capital_ratio the report carries (two decimals): 11.5 is
\* Adequate, 11.49 is Watch, 9.0 is never Critical.  Stated for the reports
\* whose capital ratio is on no tie or threshold.
C5_AdequacyAgreesWithReportedRatio ==
  RoundoffFree({"capital"}) =>
    LET c == stressOutcomes.projected.capital_ratio
    IN  stressOutcomes.capital_adequacy =
          (IF c >= 1150 THEN "Adequate" ELSE IF c >= 900 THEN "Watch"
           ELSE "Critical")

\* The current vector and the vectors got from it by pushing
\* temperature_rise, water_stress_level and disaster_frequency together to
\* an end of their sliders.
Extremes ==
  LET ends(key) == {STRESS_TEST_PARAMS[key].min, STRESS_TEST_PARAMS[key].max}
  IN  {stressParams} \cup
      {[stressParams EXCEPT !.temperature_rise = t, !.water_stress_level = w,
                            !.disaster_frequency = d] :
         t \in ends("temperature_rise"), w \in ends("water_stress_level"),
         d \in ends("disaster_frequency")}

\* The reports the engine can return for vector p, the current report for
\* the current vector.
Reports(p) ==
  IF p = stressParams THEN {stressOutcomes}
  ELSE {calculateStressOutcomes(p, e) : e \in Roundoffs(p)}

\* C6: the five dimension scores and the overall score of a report lie in
\* [0, 100], for the current vector and with temperature_rise,
\* water_stress_level and disaster_frequency at their extremes (4.0, 100
\* and 3.0 among them).
C6_ScoresWithin0And100 ==
  \A p \in Extremes : \A r \in Reports(p) :
    \A k \in {"physical", "transition", "financial", "operational",
              "regulatory", "overall"} :
      r.risk_scores[k] >= 0 /\ r.risk_scores[k] <= 1000

\* disaster_frequency 3.0 in a hot scenario: three scores sit on the cap.
C6_Witness ==
  /\ stressParams.disaster_frequency = 30
  /\ stressParams.temperature_rise >= 34
  /\ stressOutcomes.risk_scores.physical = 1000
  /\ stressOutcomes.risk_scores.financial = 1000
  /\ stressOutcomes.risk_scores.operational = 1000
  /\ stressOutcomes.risk_scores.overall < 1000

\* C7: every projected metric of a report is non-negative, for the current
\* vector and with temperature_rise, water_stress_level and
\* disaster_frequency at their extremes.
C7_ProjectedNonNegative ==
  \A p \in Extremes : \A r \in Reports(p) :
    \A k \in {"npa_ratio", "gdp_growth", "expected_loss",
              "green_finance_share", "capital_ratio", "liquidity_coverage"} :
      r.projected[k] >= 0

\* The harshest vector the sliders reach here: capital is Critical and
\* growth is more than two points under its baseline.
C7_Witness ==
  /\ stressParams.temperature_rise >= 34
  /\ stressParams.disaster_frequency = 30
  /\ stressParams.fossil_phase_out >= 80
  /\ stressOutcomes.capital_adequacy = "Critical"
  /\ stressOutcomes.projected.gdp_growth < 450
  /\ stressOutcomes.projected.capital_ratio > 0

\* Sum of the five dimension scores the report carries, in tenths.
ReportedScoreSum ==
  stressOutcomes.risk_scores.physical + stressOutcomes.risk_scores.transition
    + stressOutcomes.risk_scores.financial + stressOutcomes.risk_scores.operational
    + stressOutcomes.risk_scores.regulatory

ScoreFields ==
  {"physical", "transition", "financial", "operational", "regulatory", "overall"}

\* C8 (as stated): risk_scores.overall is the arithmetic mean of the five
\* dimension scores carried by the same report, rounded to one decimal
\* (either way when that mean is a tie).  Stated for the reports none of
\* whose scores is on a tie or threshold.
C8_OverallIsMeanOfReportedScores ==
  RoundoffFree(ScoreFields) =>
    2 * Abs(5 * stressOutcomes.risk_scores.overall - ReportedScoreSum) <= 5

\* C8 (amended): risk_scores.overall is the arithmetic mean of the five
\* unrounded dimension scores, rounded to one decimal; it is within 0.1 of
\* the mean of the five scores the report carries.
C8_OverallIsRoundedMeanOfScores ==
  LET sum == physicalRisk(stressParams) + transitionRisk(stressParams)
               + financialRisk(stressParams) + operationalRisk(stressParams)
               + regulatoryRisk(stressParams)
      o == stressOutcomes.risk_scores.overall
  IN  /\ 2 * Abs(500 * o - sum) <= 500
      /\ Abs(5 * o - ReportedScoreSum) <= 5

\* The reported overall is not the rounded mean of the reported scores.
C8_Witness ==
  /\ RoundoffFree(ScoreFields)
  /\ 2 * Abs(5 * stressOutcomes.risk_scores.overall - ReportedScoreSum) > 5
  /\ stressOutcomes.risk_scores.overall > 0

\* C9: raising temperature_rise from t1 >= 1.5 to any t2 > t1, the other
\* parameters fixed, lowers neither the physical score nor projected
\* npa_ratio of the report.
C9_MonotoneInTemperature ==
  \A t2 \in SliderValues("temperature_rise") :
    (stressParams.temperature_rise >= 15 /\ t2 > stressParams.temperature_rise) =>
      LET p2 == [stressParams EXCEPT !.temperature_rise = t2]
      IN  \A e2 \in Roundoffs(p2) :
            LET r2 == calculateStressOutcomes(p2, e2)
            IN  /\ r2.risk_scores.physical >= stressOutcomes.risk_scores.physical
                /\ r2.projected.npa_ratio >= stressOutcomes.projected.npa_ratio

\* A vector at 1.5 or above from which one more step of the temperature
\* slider strictly raises both values.
C9_Witness ==
  /\ stressParams.temperature_rise >= 15
  /\ stressParams.temperature_rise < 40
  /\ LET p2 == [stressParams EXCEPT !.temperature_rise = @ + 1]
     IN  \E e2 \in Roundoffs(p2) :
           LET r2 == calculateStressOutcomes(p2, e2)
           IN  /\ r2.risk_scores.physical > stressOutcomes.risk_scores.physical
               /\ r2.projected.npa_ratio > stressOutcomes.projected.npa_ratio

\* C11: the baseline field of every report is npa_ratio 2.5, gdp_growth 6.5,
\* expected_loss 15000, green_finance_share 20, capital_ratio 15.5,
\* liquidity_coverage 135, whatever the parameter vector.
C11_BaselineIsConstant ==
  stressOutcomes.baseline =
    [npa_ratio |-> 250, gdp_growth |-> 650, expected_loss |-> 15000,
     green_finance_share |-> 200, capital_ratio |-> 1550,
     liquidity_coverage |-> 135]

\* Every parameter is off its default and every projected metric is off its
\* baseline, and the baseline still reads 2.5 and 15.5.
C11_Witness ==
  /\ \A key \in ParamKeys : stressParams[key] # DefaultParams[key]
  /\ \A k \in DOMAIN stressOutcomes.projected :
       stressOutcomes.projected[k] # stressOutcomes.baseline[k]
  /\ stressOutcomes.baseline.npa_ratio = 250
  /\ stressOutcomes.baseline.capital_ratio = 1550

\* reported, counted in multiples of unit, is a nearest multiple of unit to
\* the exact value x.
Nearest(reported, unit, x) == 2 * Abs(unit * reported - x) <= unit

\* C12: the six projected metrics of the report are the reference formulas
\* evaluated on the impact terms, rounded:
\*   npa = max(0, 2.5 + TI + WI + DI - GB)
\*   gdp = max(0, 6.5 - 0.5 TI - 0.3 FC - 0.4 DI + 0.2 GB)
\*   expected_loss = 15000 (1 + 0.2 TI + 0.15 DI)
\*   green_finance = 20 + 0.5 green_investment_growth
\*   capital_ratio = 15.5 - 2 (TI + transition_risk / 100)
\*   liquidity_coverage = 135 - 0.5 min(100, 20 DI + 15 WI + 25)
\* with the impact terms counted in thousandths.
C12_ProjectedFollowsReference ==
  LET p  == stressParams
      TI == temperatureImpact(p)
      CI == carbonPriceImpact(p)
      GB == greenInvestmentBenefit(p)
      FC == fossilPhaseOutCost(p)
      WI == waterStressImpact(p)
      DI == disasterImpact(p)
      TR == Min(100000, (CI + FC) * 20 + 25000)
      r  == stressOutcomes.projected
  IN  /\ Nearest(r.npa_ratio, 10, Max(0, 2500 + TI + WI + DI - GB))
      /\ Nearest(r.gdp_growth, 100,
                 Max(0, 65000 - 5 * TI - 3 * FC - 4 * DI + 2 * GB))
      /\ Nearest(r.expected_loss, 100, 15 * (100000 + 20 * TI + 15 * DI))
      /\ Nearest(r.green_finance_share, 1, 200 + 5 * p.green_investment_growth)
      /\ Nearest(r.capital_ratio, 1000, 1550000 - 2 * (100 * TI + TR))
      /\ Nearest(r.liquidity_coverage, 2000,
                 270000 - Min(100000, 20 * DI + 15 * WI + 25000))

\* A vector with all six impact terms non-zero, growth below its baseline
\* and no clamp or cap in play.
C12_Witness ==
  /\ temperatureImpact(stressParams) > 0
  /\ carbonPriceImpact(stressParams) # 0
  /\ greenInvestmentBenefit(stressParams) > 0
  /\ fossilPhaseOutCost(stressParams) > 0
  /\ waterStressImpact(stressParams) > 0
  /\ disasterImpact(stressParams) > 0
  /\ stressOutcomes.projected.gdp_growth < 650
  /\ stressOutcomes.projected.gdp_growth > 0
  /\ stressOutcomes.projected.liquidity_coverage > 85

\* C13: the five dimension scores of the report are the reference formulas,
\* each capped at 100 and rounded:
\*   physical = (TI + WI + DI) 25 + 30, transition = (CI + FC) 20 + 25,
\*   financial = (projected_npa / 2.5 - 1) 50 + 40 on the clamped npa,
\*   operational = (DI + WI) 30 + 20, regulatory = carbon_price / 1000 * 15 + 30.
C13_ScoresFollowReference ==
  LET p   == stressParams
      TI  == temperatureImpact(p)
      CI  == carbonPriceImpact(p)
      GB  == greenInvestmentBenefit(p)
      FC  == fossilPhaseOutCost(p)
      WI  == waterStressImpact(p)
      DI  == disasterImpact(p)
      npa == Max(0, 2500 + TI + WI + DI - GB)
      r   == stressOutcomes.risk_scores
  IN  /\ Nearest(r.physical, 100, Min(100000, (TI + WI + DI) * 25 + 30000))
      /\ Nearest(r.transition, 100, Min(100000, (CI + FC) * 20 + 25000))
      /\ Nearest(r.financial, 100, Min(100000, (npa - 2500) * 20 + 40000))
      /\ Nearest(r.operational, 100, Min(100000, (DI + WI) * 30 + 20000))
      /\ Nearest(r.regulatory, 100, Min(100000, 15 * p.carbon_price + 30000))

\* Physical is on the cap while financial is between 40 and the cap, and
\* transition and regulatory are off their values at the defaults.
C13_Witness ==
  /\ stressOutcomes.risk_scores.physical = 1000
  /\ stressOutcomes.risk_scores.financial > 400
  /\ stressOutcomes.risk_scores.financial < 1000
  /\ stressOutcomes.risk_scores.regulatory # 450
  /\ stressOutcomes.risk_scores.transition > 250

\* C14 (as stated): the report carries the three ratios npa_ratio, gdp_growth
\* and capital_ratio and all six risk scores rounded to two decimals,
\* expected_loss rounded to zero decimals and green_finance_share rounded to
\* one decimal.
C14_ScoresCarryTwoDecimals ==
  LET p == stressParams
      r == stressOutcomes
  IN  /\ Nearest(r.projected.npa_ratio, 10, projectedNPA(p))
      /\ Nearest(r.projected.gdp_growth, 100, projectedGDP(p))
      /\ Nearest(r.projected.capital_ratio, 1000, capitalRatio(p))
      /\ Nearest(r.projected.expected_loss, 100, projectedExpectedLoss(p))
      /\ Nearest(r.projected.green_finance_share, 1, projectedGreenFinance(p))
      /\ Nearest(10 * r.risk_scores.physical, 10, physicalRisk(p))
      /\ Nearest(10 * r.risk_scores.transition, 10, transitionRisk(p))
      /\ Nearest(10 * r.risk_scores.financial, 10, financialRisk(p))
      /\ Nearest(10 * r.risk_scores.operational, 10, operationalRisk(p))
      /\ Nearest(10 * r.risk_scores.regulatory, 10, regulatoryRisk(p))
      /\ Nearest(10 * r.risk_scores.overall, 50, riskSum(p))

\* C14 (amended): npa_ratio, gdp_growth, capital_ratio, npa_change and
\* gdp_change are rounded to two decimals; the six risk scores,
\* green_finance_share and loss_change_pct to one decimal; expected_loss and
\* liquidity_coverage to zero decimals.
C14_RoundedToFieldPrecision ==
  LET p == stressParams
      r == stressOutcomes
  IN  /\ Nearest(r.projected.npa_ratio, 10, projectedNPA(p))
      /\ Nearest(r.projected.gdp_growth, 100, projectedGDP(p))
      /\ Nearest(r.projected.capital_ratio, 1000, capitalRatio(p))
      /\ Nearest(r.changes.npa_change, 10, npaChange(p))
      /\ Nearest(r.changes.gdp_change, 100, gdpChange(p))
      /\ Nearest(r.risk_scores.physical, 100, physicalRisk(p))
      /\ Nearest(r.risk_scores.transition, 100, transitionRisk(p))
      /\ Nearest(r.risk_scores.financial, 100, financialRisk(p))
      /\ Nearest(r.risk_scores.operational, 100, operationalRisk(p))
      /\ Nearest(r.risk_scores.regulatory, 100, regulatoryRisk(p))
      /\ Nearest(r.risk_scores.overall, 500, riskSum(p))
      /\ Nearest(r.projected.green_finance_share, 1, projectedGreenFinance(p))
      /\ Nearest(r.changes.loss_change_pct, 1500, lossChangePct(p))
      /\ Nearest(r.projected.expected_loss, 100, projectedExpectedLoss(p))
      /\ Nearest(r.projected.liquidity_coverage, 2000, liquidityCoverage(p))

\* The physical score has digits beyond its first decimal and was rounded
\* up, growth has digits beyond its second decimal and was rounded down.
C14_Witness ==
  /\ physicalRisk(stressParams) % 100 \notin {0, 50}
  /\ 100 * stressOutcomes.risk_scores.physical > physicalRisk(stressParams)
  /\ projectedGDP(stressParams) % 100 \notin {0, 50}
  /\ 100 * stressOutcomes.projected.gdp_growth < projectedGDP(stressParams)

\* Climate Crisis with the disaster slider at 1.0: projected growth is
\* 6.5 - 1.6 - 0.045 + 0.02 = 4.875 and liquidity coverage 135 - 15.5 = 119.5,
\* both of which IEEE-754 evaluation yields without error.
CrisisWithoutDisasters == [ClimateCrisis EXCEPT !.disaster_frequency = 10]

\* Every double of the current report holds its exact value.
WithoutError == \A k \in DOMAIN roundoff : roundoff[k] = 0

\* C15 (as stated): the deltas of a report are consistent with the projected
\* and baseline values the same report carries: npa_change is projected
\* npa_ratio minus baseline npa_ratio, gdp_change is projected gdp_growth
\* minus baseline gdp_growth, loss_change_pct is (projected expected_loss -
\* baseline expected_loss) / baseline expected_loss * 100 rounded.  Stated for
\* the report of Climate Crisis with disaster_frequency 1.0.
C15_DeltasMatchCarriedValues ==
  (stressParams = CrisisWithoutDisasters /\ WithoutError) =>
    LET r == stressOutcomes
    IN  /\ r.changes.npa_change = r.projected.npa_ratio - r.baseline.npa_ratio
        /\ r.changes.gdp_change = r.projected.gdp_growth - r.baseline.gdp_growth
        /\ Nearest(r.changes.loss_change_pct, 15,
                   r.projected.expected_loss - r.baseline.expected_loss)

\* C15 (amended): each delta is the difference of the unrounded projected
\* value and the baseline, rounded (npa_change and gdp_change to two
\* decimals, loss_change_pct to one); loss_change_pct agrees with the
\* expected_loss figures the report carries, npa_change and gdp_change agree
\* with the carried values to within 0.01.
C15_DeltasFromUnroundedValues ==
  LET p == stressParams
      r == stressOutcomes
  IN  /\ Nearest(r.changes.npa_change, 10, projectedNPA(p) - 2500)
      /\ Nearest(r.changes.gdp_change, 100, projectedGDP(p) - 65000)
      /\ Nearest(r.changes.loss_change_pct, 1500,
                 projectedExpectedLoss(p) - 1500000)
      /\ Nearest(r.changes.loss_change_pct, 15,
                 r.projected.expected_loss - r.baseline.expected_loss)
      /\ Abs(r.changes.npa_change
               - (r.projected.npa_ratio - r.baseline.npa_ratio)) <= 1
      /\ Abs(r.changes.gdp_change
               - (r.projected.gdp_growth - r.baseline.gdp_growth)) <= 1

\* The report shows growth 6.5 -> 4.88 with gdp_change -1.63.
C15_Witness ==
  /\ stressParams = CrisisWithoutDisasters
  /\ WithoutError
  /\ stressOutcomes.projected.gdp_growth = 488
  /\ stressOutcomes.changes.gdp_change = -163
  /\ stressOutcomes.changes.npa_change > 0

\* C16: every field of the current parameter vector lies within the [min,
\* max] its catalog entry declares, after any sequence of slider changes,
\* presets and resets; every default and every preset value is in range.
C16_ParamsWithinRange ==
  LET within(p) ==
        \A key \in ParamKeys :
          /\ p[key] >= STRESS_TEST_PARAMS[key].min
          /\ p[key] <= STRESS_TEST_PARAMS[key].max
  IN  /\ within(stressParams)
      /\ within(DefaultParams)
      /\ \A i \in 1..Len(presetScenarios) : within(presetScenarios[i].params)

\* A vector off every preset and off the defaults, with one slider on its
\* upper end and one on its lower end.
C16_Witness ==
  /\ stressParams.green_investment_growth = STRESS_TEST_PARAMS.green_investment_growth.max
  /\ stressParams.disaster_frequency = STRESS_TEST_PARAMS.disaster_frequency.min
  /\ stressParams.temperature_rise = 34
  /\ stressParams # DefaultParams
  /\ \A i \in 1..Len(presetScenarios) : stressParams # presetScenarios[i].params

\* The elements of a sequence.
Range(seq) == {seq[i] : i \in 1..Len(seq)}

\* seq with the occurrences of item left out.
Without(seq, item) == SelectSeq(seq, LAMBDA x : x # item)

\* C18: each conditional recommendation is in the list exactly when its own
\* condition holds on the report (physical > 50, transition > 50,
\* capital_ratio < 12, npa_change > 1), whatever the other rules do; a
\* report that differs from the current one only in the side of 50 its
\* physical score lies on has a list that differs in the physical item only.
C18_RulesFireIndependently ==
  LET r == stressOutcomes
      L == Recommendations(r)
      other == [r EXCEPT !.risk_scores.physical = IF @ > 500 THEN 500 ELSE 501]
      M == Recommendations(other)
  IN  /\ (PhysicalItem \in Range(L)) <=> (r.risk_scores.physical > 500)
      /\ (TransitionItem \in Range(L)) <=> (r.risk_scores.transition > 500)
      /\ (CapitalItem \in Range(L)) <=> (r.projected.capital_ratio < 1200)
      /\ (CreditItem \in Range(L)) <=> (r.changes.npa_change > 100)
      /\ (PhysicalItem \in Range(L)) # (PhysicalItem \in Range(M))
      /\ Without(L, PhysicalItem) = Without(M, PhysicalItem)

\* The physical and the credit rules fire, the two between them do not.
C18_Witness ==
  /\ stressParams # InitialParams
  /\ stressOutcomes.risk_scores.physical > 500
  /\ stressOutcomes.risk_scores.transition <= 500
  /\ stressOutcomes.projected.capital_ratio >= 1200
  /\ stressOutcomes.changes.npa_change > 100
  /\ Recommendations(stressOutcomes)
       = <<PhysicalItem, CreditItem, MonitoringItem, DiversifiedItem>>

\* The place of an item in the order of the rules.
Rank(item) ==
  CASE item = PhysicalItem -> 1 [] item = TransitionItem -> 2
    [] item = CapitalItem -> 3 [] item = CreditItem -> 4
    [] item = MonitoringItem -> 5 [] item = DiversifiedItem -> 6
    [] OTHER -> 0

\* C19: the list of every report ends with the quarterly-monitoring and the
\* diversified-portfolio items, has between 2 and 6 entries, and keeps the
\* order physical, transition, capital buffer, credit monitoring, then the
\* two unconditional items.
C19_FixedOrderAndBaselineItems ==
  LET L == Recommendations(stressOutcomes)
      n == Len(L)
  IN  /\ n >= 2 /\ n <= 6
      /\ L[n - 1] = MonitoringItem
      /\ L[n] = DiversifiedItem
      /\ \A i \in 1..n : Rank(L[i]) > 0
      /\ \A i \in 1..(n - 1) : Rank(L[i]) < Rank(L[i + 1])

\* All four rules fire on a report whose most severe finding, a Critical
\* capital ratio, is listed third.
C19_Witness ==
  /\ Len(Recommendations(stressOutcomes)) = 6
  /\ stressOutcomes.capital_adequacy = "Critical"
  /\ Recommendations(stressOutcomes)[3] = CapitalItem

\* The rounding outcomes the engine can take on each preset's parameters.
PresetRoundoffs ==
  [i \in 1..Len(presetScenarios) |-> Roundoffs(presetScenarios[i].params)]

\* C20: applying a preset replaces the whole vector by the preset's
\* parameters whatever the vector was, the report becomes the engine's
\* report for exactly those parameters, and applying the preset to a vector
\* that already equals it changes neither the vector nor the report.
C20_ApplyPresetReplacesVector ==
  [][\A i \in 1..Len(presetScenarios) :
       applyPreset(presetScenarios[i]) =>
         /\ \A key \in ParamKeys :
              stressParams'[key] = presetScenarios[i].params[key]
         /\ stressOutcomes' = calculateStressOutcomes(presetScenarios[i].params, roundoff')
         /\ roundoff' \in PresetRoundoffs[i]
         /\ stressParams = presetScenarios[i].params =>
              stressOutcomes' = stressOutcomes]_vars

\* Green Recovery has been applied: no slider stop or default equals its
\* temperature, price, growth, phase-out, water or disaster value.
C20_Witness ==
  /\ stressParams = presetScenarios[5].params
  /\ \A key \in ParamKeys :
       /\ stressParams[key] # DefaultParams[key]
       /\ stressParams[key] \notin SliderStops(key)
  /\ stressOutcomes = calculateStressOutcomes(presetScenarios[5].params, roundoff)

\* Every report the engine can return for the vector the page starts on.
InitialReports ==
  {calculateStressOutcomes(InitialParams, e) : e \in Roundoffs(InitialParams)}

\* C21: the page starts on the vector 1.5 / 1000 / 20 / 5 / 45 / 1.5, which
\* is the catalog's defaults; resetParams leads from any vector to that
\* vector and to a report the engine returns for it, one the page can start
\* with; a reset on the default vector changes neither vector nor report.
C21_ResetRestoresDefaults ==
  /\ stressParams =
       [temperature_rise |-> 15, carbon_price |-> 1000,
        green_investment_growth |-> 20, fossil_phase_out |-> 50,
        water_stress_level |-> 45, disaster_frequency |-> 15]
  /\ [][resetParams =>
         /\ stressParams' = InitialParams
         /\ \A key \in ParamKeys :
              stressParams'[key] = STRESS_TEST_PARAMS[key].default
         /\ stressOutcomes' \in InitialReports
         /\ stressOutcomes' = calculateStressOutcomes(stressParams', roundoff')
         /\ stressParams = InitialParams => UNCHANGED vars]_vars

\* The default vector with the report of the defaults: 2.92 or 2.93 percent
\* NPA, 16350 crore expected loss, a capital ratio of 14.70, stress
\* Moderate.
C21_Witness ==
  /\ stressParams = DefaultParams
  /\ stressOutcomes.projected.expected_loss = 16350
  /\ stressOutcomes.projected.capital_ratio = 1470
  /\ stressOutcomes.projected.npa_ratio \in {292, 293}
  /\ stressOutcomes.stress_level = "Moderate"

\* The current vector and, examined alongside the default vector since they
\* do not depend on the page, the vectors with every slider at an end of its
\* range, temperature_rise also at 1.5 where its impact is least.
Corners ==
  LET ends(key) == {STRESS_TEST_PARAMS[key].min, STRESS_TEST_PARAMS[key].max}
  IN  IF stressParams # DefaultParams THEN {stressParams}
      ELSE
      {stressParams} \cup
      {[temperature_rise |-> t, carbon_price |-> c, green_investment_growth |-> g,
        fossil_phase_out |-> f, water_stress_level |-> w, disaster_frequency |-> d] :
         t \in ends("temperature_rise") \cup {15}, c \in ends("carbon_price"),
         g \in ends("green_investment_growth"), f \in ends("fossil_phase_out"),
         w \in ends("water_stress_level"), d \in ends("disaster_frequency")}

\* C22: for the current vector and every corner of the slider ranges the
\* engine returns a complete report: the two constants it divides by are not
\* zero, every field is present, the labels are among the seven defined
\* ones and every number lies between the least and the greatest value the
\* ranges allow (NPA 1.5 to 10.4, growth 2.365 to 6.7 carried to two
\* decimals, loss 15000 to 35400, green share 20 to 45, capital 3.62 to
\* 15.06, liquidity 95 to 123, scores 0 to 100, NPA change -1 to 7.9, growth
\* change -4.135 to 0.2 carried to two decimals, loss change 0 to 136
\* percent).
C22_TotalAndBounded ==
  LET within(x, lo, hi) == x \in Int /\ lo <= x /\ x <= hi
  IN  /\ baseNPA # 0 /\ baseExpectedLoss # 0
      /\ \A p \in Corners : \A r \in Reports(p) :
           /\ DOMAIN r = {"baseline", "projected", "risk_scores", "changes",
                          "stress_level", "capital_adequacy"}
           /\ DOMAIN r.projected = DOMAIN r.baseline
           /\ DOMAIN r.projected =
                {"npa_ratio", "gdp_growth", "expected_loss", "green_finance_share",
                 "capital_ratio", "liquidity_coverage"}
           /\ DOMAIN r.risk_scores = ScoreFields
           /\ DOMAIN r.changes = {"npa_change", "gdp_change", "loss_change_pct"}
           /\ r.stress_level \in {"Low", "Moderate", "High", "Severe"}
           /\ r.capital_adequacy \in {"Adequate", "Watch", "Critical"}
           /\ within(r.projected.npa_ratio, 150, 1040)
           /\ within(r.projected.gdp_growth, 236, 670)
           /\ within(r.projected.expected_loss, 15000, 35400)
           /\ within(r.projected.green_finance_share, 200, 450)
           /\ within(r.projected.capital_ratio, 362, 1506)
           /\ within(r.projected.liquidity_coverage, 95, 123)
           /\ \A k \in DOMAIN r.risk_scores : within(r.risk_scores[k], 0, 1000)
           /\ within(r.changes.npa_change, -100, 790)
           /\ within(r.changes.gdp_change, -414, 20)
           /\ within(r.changes.loss_change_pct, 0, 1360)

\* A harsh vector on the page: the physical score on the cap, the expected
\* loss nearly doubled, every field of the report still inside its bounds.
C22_Witness ==
  /\ stressParams.temperature_rise >= 34
  /\ stressParams.disaster_frequency = 30
  /\ stressOutcomes.projected.expected_loss >= 29000
  /\ stressOutcomes.projected.expected_loss <= 35400
  /\ stressOutcomes.risk_scores.physical = 1000
  /\ stressOutcomes.changes.loss_change_pct >= 900

\* C23: after any sequence of slider changes, preset applications and
\* resets the report on the page is the engine's report for the current
\* vector alone: it is one of the reports the engine returns for that vector
\* and is the one computed from the vector and the rounding of its own
\* evaluation.
C23_ReportOfCurrentVectorOnly ==
  /\ roundoff \in Roundoffs(stressParams)
  /\ stressOutcomes = calculateStressOutcomes(stressParams, roundoff)
  /\ stressOutcomes \in
       {calculateStressOutcomes(stressParams, e) : e \in Roundoffs(stressParams)}

\* A preset followed by a slider change: Climate Crisis with the disaster
\* slider then taken to 1.0 shows that vector's report, not the preset's and
\* not the first render's.
C23_Witness ==
  /\ stressParams = CrisisWithoutDisasters
  /\ stressOutcomes = calculateStressOutcomes(CrisisWithoutDisasters, roundoff)
  /\ stressOutcomes \notin
       {calculateStressOutcomes(ClimateCrisis, e) : e \in Roundoffs(ClimateCrisis)}
  /\ stressOutcomes \notin
       {calculateStressOutcomes(InitialParams, e) : e \in Roundoffs(InitialParams)}

\* The current vector made as benign for capital as the sliders allow:
\* temperature_rise 1.5, carbon_price 500, fossil_phase_out 0.
Benign ==
  [stressParams EXCEPT !.temperature_rise = 15,
                       !.carbon_price = STRESS_TEST_PARAMS["carbon_price"].min,
                       !.fossil_phase_out = STRESS_TEST_PARAMS["fossil_phase_out"].min]

\* C25: for the current vector, its most benign variant and the corners of
\* the ranges, temperature_impact is not negative, the transition score is
\* positive, capital_impact is negative, and the capital ratio, unrounded
\* and as reported, is strictly below the baseline 15.5.
C25_CapitalBelowBaseline ==
  \A p \in Corners \cup {Benign} :
    /\ temperatureImpact(p) >= 0
    /\ transitionRisk(p) > 0
    /\ capitalImpact(p) < 0
    /\ capitalRatio(p) < 1550000
    /\ \A r \in Reports(p) :
         r.projected.capital_ratio < r.baseline.capital_ratio

\* Temperature at 1.5 and disasters at 1.0 on the page: the report carries
\* 14.70, and even with carbon price and phase-out at their lower ends the
\* ratio is 15.06.
C25_Witness ==
  /\ stressParams.temperature_rise = 15
  /\ stressParams.disaster_frequency = 10
  /\ temperatureImpact(stressParams) = 0
  /\ stressOutcomes.projected.capital_ratio = 1470
  /\ \A r \in Reports(Benign) : r.projected.capital_ratio = 1506

\* The current vector with temperature_rise and disaster_frequency moved to
\* the ends of their sliders, to 1.5 and 1.0 and to the stops next to those.
LossDrivers ==
  LET low == [key \in ParamKeys |-> STRESS_TEST_PARAMS[key].min]
      high == [key \in ParamKeys |-> STRESS_TEST_PARAMS[key].max]
      at(t, d) == [stressParams EXCEPT !.temperature_rise = t, !.disaster_frequency = d]
  IN  {at(t, 10) : t \in {low.temperature_rise, 14, 15, 16, high.temperature_rise}}
        \cup {at(15, d) : d \in {11, high.disaster_frequency}}
        \cup {at(t, high.disaster_frequency) :
                t \in {low.temperature_rise, high.temperature_rise}}

\* The current vector with carbon_price, green_investment_growth,
\* fossil_phase_out and water_stress_level all at their lower or all at
\* their upper ends.
LossBystanders ==
  {[key \in ParamKeys |->
      IF key \in {"temperature_rise", "disaster_frequency"} THEN stressParams[key]
      ELSE IF up THEN STRESS_TEST_PARAMS[key].max ELSE STRESS_TEST_PARAMS[key].min] :
     up \in BOOLEAN}

\* C26: the projected expected loss of a report is at least the baseline
\* 15000 and loss_change_pct at least 0, each with equality exactly when
\* temperature_rise is 1.5 and disaster_frequency is 1.0 (for the current
\* vector and with those two sliders moved); moving the other four sliders
\* to their ends changes neither value.
C26_LossAtLeastBaseline ==
  /\ \A p \in {stressParams} \cup LossDrivers : \A r \in Reports(p) :
       LET atRest == p.temperature_rise = 15 /\ p.disaster_frequency = 10
       IN  /\ r.projected.expected_loss >= r.baseline.expected_loss
           /\ r.changes.loss_change_pct >= 0
           /\ r.projected.expected_loss = r.baseline.expected_loss <=> atRest
           /\ r.changes.loss_change_pct = 0 <=> atRest
  /\ \A p \in LossBystanders : \A r \in Reports(p) :
       /\ r.projected.expected_loss = stressOutcomes.projected.expected_loss
       /\ r.changes.loss_change_pct = stressOutcomes.changes.loss_change_pct

\* Temperature 1.5 and disasters 1.0 with the carbon price moved off its
\* default: the loss is the baseline and its change is zero.
C26_Witness ==
  /\ stressParams.temperature_rise = 15
  /\ stressParams.disaster_frequency = 10
  /\ stressParams.carbon_price # DefaultParams.carbon_price
  /\ stressOutcomes.projected.expected_loss = 15000
  /\ stressOutcomes.changes.loss_change_pct = 0

\* The current vector with temperature_rise set to t.
AtTemperature(t) == [stressParams EXCEPT !.temperature_rise = t]

\* Every report the engine can return for vector p.
ReportsOf(p) == {calculateStressOutcomes(p, e) : e \in Roundoffs(p)}

\* C27: with the other five parameters as on the page, temperature_impact
\* is zero at temperature_rise 1.5 and at no other slider value, and equal at
\* equal distances below and above 1.5; from 1.0 to 1.5 each step down in
\* temperature lowers neither the physical score nor the projected NPA
\* ratio of the report; and the reports for 1.0 and for 2.0 are the same.
C27_TemperatureImpactSymmetric ==
  LET low == STRESS_TEST_PARAMS["temperature_rise"].min
      reports == [t \in low..15 |-> ReportsOf(AtTemperature(t))]
      physical == [t \in low..15 |-> {r.risk_scores.physical : r \in reports[t]}]
      npa == [t \in low..15 |-> {r.projected.npa_ratio : r \in reports[t]}]
  IN  /\ \A t \in SliderValues("temperature_rise") :
           /\ temperatureImpact(AtTemperature(t)) >= 0
           /\ temperatureImpact(AtTemperature(t)) = 0 <=> t = 15
      /\ \A k \in 0..(15 - low) :
           temperatureImpact(AtTemperature(15 - k)) = temperatureImpact(AtTemperature(15 + k))
      /\ \A t \in low..14 :
           /\ \A x \in physical[t] : \A y \in physical[t + 1] : x >= y
           /\ \A x \in npa[t] : \A y \in npa[t + 1] : x >= y
      /\ reports[low] = ReportsOf(AtTemperature(20))
      /\ stressParams.temperature_rise = 20 => stressOutcomes \in reports[low]

\* Delayed Transition sets 2.0 degrees: its report is a report of the same
\* vector at 1.0 degrees, with a physical score above the one at 1.5.
C27_Witness ==
  /\ stressParams.temperature_rise = 20
  /\ stressOutcomes \in ReportsOf(AtTemperature(10))
  /\ \A r \in ReportsOf(AtTemperature(15)) :
       /\ r.risk_scores.physical < stressOutcomes.risk_scores.physical
       /\ r.projected.npa_ratio < stressOutcomes.projected.npa_ratio

\* The value the queued changes ask for in field key: that of the last
\* queued change naming the field, the current value if none names it.
Requested(key) ==
  LET named == {i \in 1..Len(updateQueue) : updateQueue[i].key = key}
  IN  IF named = {} THEN stressParams[key]
      ELSE updateQueue[CHOOSE i \in named : \A j \in named : j <= i].value

\* C24: a slider change leaves the vector as it is until the render, and
\* the render gives every field the value of the last queued change that
\* names it and leaves every field no queued change names unchanged, for one
\* change and for several changes queued before the render.
C24_ChangeSetsOnlyItsField ==
  [][(\A key \in ParamKeys : \A value \in BatchStops(key) :
        onChange(key, value) =>
          /\ stressParams' = stressParams
          /\ updateQueue'[Len(updateQueue')] = [key |-> key, value |-> value])
     /\ (Rerender => \A key \in ParamKeys : stressParams'[key] = Requested(key))]_vars

\* Two changes to different sliders wait for the render, neither asking for
\* the value its field has, while an earlier render has already moved the
\* temperature and the carbon price.
C24_Witness ==
  /\ Len(updateQueue) = 2
  /\ updateQueue[1].key # updateQueue[2].key
  /\ \A i \in 1..2 : updateQueue[i].value # stressParams[updateQueue[i].key]
  /\ stressParams.temperature_rise # DefaultParams.temperature_rise
  /\ stressParams.carbon_price # DefaultParams.carbon_price
  /\ stressParams.water_stress_level = DefaultParams.water_stress_level

\* C28: a protected page is on the screen only with loading false and a
\* user set; at a protected address the screen is the spinner while loading
\* is true and the redirect once loading is false with no user; the
\* redirect to /login is taken only in that last case; and checkAuth ends,
\* with no token stored or on any answer to getMe, with loading false.
C28_ProtectedOnlyWhenSignedIn ==
  /\ [](/\ (Element \in ProtectedPaths) =>
             (~authProvider.loading /\ authProvider.user # Null)
        /\ (location \in ProtectedPaths /\ authProvider.loading) =>
             (Element = "spinner")
        /\ (location \in ProtectedPaths /\ ~authProvider.loading
               /\ authProvider.user = Null) =>
             (Element = "Navigate"))
  /\ [][Navigate =>
          (/\ ~authProvider.loading
           /\ authProvider.user = Null
           /\ location \in ProtectedPaths
           /\ location' = "/login")]_vars
  /\ [][\A i \in 1..Len(pending) :
          /\ (checkAuth(i) /\ \A j \in 1..Len(pending') : pending'[j].kind # "getMe") =>
               ~authProvider'.loading
          /\ \A status \in {"ok", "unauthorized", "error"} :
               getMeResponse(i, status) => ~authProvider'.loading]_vars

\* The dashboard is on the screen after the stored token was accepted:
\* loading is false, the user is set, the stored items are those of the
\* earlier sign-in.
C28_Witness ==
  /\ location = "/dashboard"
  /\ Element = "/dashboard"
  /\ ~authProvider.loading
  /\ authProvider.user = "officer"
  /\ localStorage = SignedIn
  /\ pending = <<>>

\* A page load has been asked for by an assignment to window.location.href.
LoadAsked(queue) == \E j \in 1..Len(queue) : queue[j].kind = "load"

\* C29: an answer to login with requires_2fa stores nothing, leaves user as
\* it was (null for a visitor not signed in), moves the form to the OTP step
\* and navigates nowhere; a failed login stores nothing and navigates
\* nowhere; and the address becomes /dashboard on an answer to login only if
\* the answer carried token and user, which are stored by then.
C29_LoginStoresAndNavigatesOnlyOnSuccess ==
  [][\A i \in 1..Len(pending) :
       \A result \in {"requires_2fa", "ok", "unauthorized", "error"} :
         loginResponse(i, result) =>
           /\ (result = "requires_2fa") =>
                (/\ localStorage' = localStorage
                 /\ authProvider'.user = authProvider.user
                 /\ pending[i].mounted => loginForm'.requires2FA
                 /\ location' = location
                 /\ LoadAsked(pending') => LoadAsked(pending))
           /\ (result \in {"unauthorized", "error"}) =>
                (/\ localStorage'.token \in {localStorage.token, Null}
                 /\ localStorage'.user \in {localStorage.user, Null}
                 /\ authProvider'.user = authProvider.user
                 /\ location' = location
                 /\ LoadAsked(pending') => LoadAsked(pending))
           /\ (location' = "/dashboard" /\ location # "/dashboard") =>
                (/\ result = "ok"
                 /\ localStorage' = [token |-> "issued", user |-> "officer"]
                 /\ authProvider'.user = "officer")]_vars

\* The simulate requests awaiting their answer.
Simulations(queue) == {j \in 1..Len(queue) : queue[j].kind = "simulate"}

====
